---- MODULE Spec2Model ----
(***************************************************************************)
(* Component and domain setup of Viseron                                   *)
(* (viseron/components/__init__.py).                                       *)
(*                                                                         *)
(* Component and domain setup share the variables below; the Storage       *)
(* helper (viseron/helpers/storage.py) has variables of its own.           *)
(*   Spec        setup_components: the tiered component setup, with the    *)
(*               NotReady retry timers and the domains the components      *)
(*               queue while they are set up.                              *)
(*   FairSpec    Spec with the fairness of running threads and timers.     *)
(*   DomainSpec  setup_domains over a table of queued domains: pruning by  *)
(*               domain_dependencies, the recursive submission walk of     *)
(*               the scheduling thread and the tasks of the worker pool.   *)
(*   PoolSpec    DomainSpec with a pool of few workers.                    *)
(*   ConcSpec    two threads that call setup_domain at the same time.      *)
(*   DelaySpec   the NotReady signal of a component or a domain at any     *)
(*               attempt, and the delay computed for the retry.            *)
(*   StorageSpec saves to and reads of the Storage objects of one key.     *)
(***************************************************************************)
EXTENDS Integers, Sequences, FiniteSets, TLC

VARIABLES
    LOADING,             \* vis.data[LOADING]: names of components being set up
    LOADED,              \* vis.data[LOADED]
    FAILED,              \* vis.data[FAILED]
    domains_to_setup,    \* Component.domains_to_setup, per component name
    DOMAINS_TO_SETUP,    \* vis.data[DOMAINS_TO_SETUP]: domain -> identifier -> DomainToSetup
    DOMAIN_IDENTIFIERS,  \* vis.data[DOMAIN_IDENTIFIERS]: domain -> list of identifiers
    DOMAIN_SETUP_TASKS,  \* vis.data[DOMAIN_SETUP_TASKS]: (domain, identifier) -> future
    futures,             \* the futures handed out by executor.submit, in order
    sched,               \* the threads that run setup_domains / setup_domain
    max_workers,         \* size of the worker pool of setup_domains
    orch,                \* the thread that runs setup_components
    threads,             \* the threads that run setup_component(vis, component, tries)
    timers,              \* retry timers started by Component.setup_component
    unsatisfied,         \* history: the entries domain_dependencies found unsatisfied
    files,               \* the files under STORAGE_PATH, by storage key
    storage,             \* the Storage objects
    saved                \* history: the data of the last save of a key, if it succeeded

setup_vars == <<LOADING, LOADED, FAILED, domains_to_setup, DOMAINS_TO_SETUP,
                DOMAIN_IDENTIFIERS, DOMAIN_SETUP_TASKS, futures, sched, max_workers,
                orch, threads, timers, unsatisfied>>

storage_vars == <<files, storage, saved>>

vars == <<setup_vars, storage_vars>>

(***************************************************************************)
(* Bounds                                                                  *)
(***************************************************************************)
MaxTries == 2        \* NotReady is signalled on attempts below this one only
MaxRequire == 2      \* longest require_domains list of a queued domain
MaxOptional == 1     \* longest optional_domains list of a queued domain
MaxDeps == 2         \* most dependencies (required and optional) of a queued domain
MaxRegs == 1         \* most domains a component has queued at a time during its setup
MaxPool == 1         \* largest worker pool of PoolSpec
MaxDelayTries == 25  \* largest attempt number of DelaySpec

(***************************************************************************)
(* Names                                                                   *)
(***************************************************************************)
NoId == "None"       \* identifier=None: a domain that is not instanced
DomainTypes == {"t1", "t2"}
PairSeq == << <<"t1", "x">>, <<"t2", "x">>, <<"t2", NoId>> >>
Pairs == {PairSeq[i] : i \in 1..Len(PairSeq)}

Range(s) == {s[i] : i \in 1..Len(s)}

\* dataclass DomainToSetup (config is validated when the task runs)
DomainToSetup(component, domain, identifier, require_domains, optional_domains) ==
    [component |-> component, domain |-> domain, identifier |-> identifier,
     require_domains |-> require_domains, optional_domains |-> optional_domains]

Key(d) == <<d.domain, d.identifier>>

(***************************************************************************)
(* vis.data[DOMAINS_TO_SETUP]: a dict of dicts.  order is the key order of *)
(* the outer dict, inner[domain] the values of the inner dict in key order.*)
(***************************************************************************)
EmptyTable == [order |-> <<>>, inner |-> [t \in DomainTypes |-> <<>>]]

HasKey(tbl, domain, identifier) ==
    \E i \in 1..Len(tbl.inner[domain]) : tbl.inner[domain][i].identifier = identifier

Lookup(tbl, domain, identifier) ==
    LET s == tbl.inner[domain]
    IN s[CHOOSE i \in 1..Len(s) : s[i].identifier = identifier]

\* vis.data[DOMAINS_TO_SETUP].setdefault(domain, {})[identifier] = domain_to_setup
TableSet(tbl, d) ==
    LET s == tbl.inner[d.domain]
        s2 == IF HasKey(tbl, d.domain, d.identifier)
              THEN [i \in 1..Len(s) |-> IF s[i].identifier = d.identifier THEN d ELSE s[i]]
              ELSE Append(s, d)
    IN [order |-> IF d.domain \in Range(tbl.order) THEN tbl.order
                  ELSE Append(tbl.order, d.domain),
        inner |-> [tbl.inner EXCEPT ![d.domain] = s2]]

\* del vis.data[DOMAINS_TO_SETUP][domain][identifier], the key being present
TableDel(tbl, domain, identifier) ==
    [tbl EXCEPT !.inner[domain] =
        SelectSeq(tbl.inner[domain], LAMBDA e : e.identifier # identifier)]

RECURSIVE FlatFrom(_, _)
FlatFrom(tbl, i) ==
    IF i > Len(tbl.order) THEN <<>>
    ELSE tbl.inner[tbl.order[i]] \o FlatFrom(tbl, i + 1)

\* for domain in table: for domain_to_setup in table[domain].values()
Flat(tbl) == FlatFrom(tbl, 1)

\* list.remove(x): drop the first element equal to x
RECURSIVE RemoveFirst(_, _)
RemoveFirst(s, x) ==
    IF s = <<>> THEN <<>>
    ELSE IF Head(s) = x THEN Tail(s)
    ELSE <<Head(s)>> \o RemoveFirst(Tail(s), x)

\* Component.add_domain_to_setup
add_domain_to_setup(lists, tbl, d) ==
    [lists |-> [lists EXCEPT ![d.component] = Append(@, d)],
     tbl |-> TableSet(tbl, d)]

(***************************************************************************)
(* domain_dependencies                                                     *)
(***************************************************************************)
\* domain in vis.data[DOMAIN_IDENTIFIERS] and identifier in vis.data[DOMAIN_IDENTIFIERS][domain]
Registered(ids, ref) ==
    /\ ref[1] \in DOMAIN ids
    /\ ref[2] \in Range(ids[ref[1]])

\* first loop: setdefault(domain, []).append(identifier) for truthy identifiers
RECURSIVE CollectIdentifiers(_, _)
CollectIdentifiers(flat, ids) ==
    IF flat = <<>> THEN ids
    ELSE LET d == Head(flat)
             ids2 == IF d.identifier = NoId THEN ids
                     ELSE [t \in DOMAIN ids \cup {d.domain} |->
                             IF t = d.domain
                             THEN (IF t \in DOMAIN ids THEN Append(ids[t], d.identifier)
                                   ELSE <<d.identifier>>)
                             ELSE ids[t]]
         IN CollectIdentifiers(Tail(flat), ids2)

\* The body run for one missing required dependency of d:
\* component.domains_to_setup.remove(d); del table[d.domain][d.identifier]
PruneOnce(st, d) ==
    IF d \notin Range(st.lists[d.component])
    THEN [st EXCEPT !.err = "ValueError"]
    ELSE IF ~HasKey(st.tbl, d.domain, d.identifier)
    THEN [st EXCEPT !.lists[d.component] = RemoveFirst(@, d), !.err = "KeyError"]
    ELSE [st EXCEPT !.lists[d.component] = RemoveFirst(@, d),
                    !.tbl = TableDel(st.tbl, d.domain, d.identifier)]

\* for require_domain in domain_to_setup.require_domains (no break after a prune)
RECURSIVE PruneEntry(_, _, _, _)
PruneEntry(st, d, i, ids) ==
    IF st.err # "" \/ i > Len(d.require_domains) THEN st
    ELSE IF Registered(ids, d.require_domains[i])
    THEN PruneEntry(st, d, i + 1, ids)
    ELSE PruneEntry(PruneOnce(st, d), d, i + 1, ids)

\* second loop over a copy of the values
RECURSIVE PruneAll(_, _, _)
PruneAll(st, flat, ids) ==
    IF st.err # "" \/ flat = <<>> THEN st
    ELSE PruneAll(PruneEntry(st, Head(flat), 1, ids), Tail(flat), ids)

Unsatisfied(d, ids) ==
    \E i \in 1..Len(d.require_domains) : ~Registered(ids, d.require_domains[i])

(***************************************************************************)
(* Threads that schedule: "main" runs setup_domains, any other thread is a *)
(* direct caller of setup_domain.  stack is the chain of active            *)
(* setup_domain calls, innermost last.                                     *)
(***************************************************************************)
\* Python raises RecursionError at its recursion limit.  A walk over an
\* acyclic table nests at most one call per key, so deeper nesting is a
\* walk that repeats for ever.
RecursionLimit == Cardinality(Pairs) + 1

\* One call of setup_domain: opt holds the optional dependencies for which
\* the call has called setup_domain so far
Frame(d) == [d |-> d, phase |-> "check", i |-> 1, opt |-> {}]

Top(t) == sched[t].stack[Len(sched[t].stack)]
Pop(s) == SubSeq(s, 1, Len(s) - 1)
SetTop(s, f) == [s EXCEPT ![Len(s)] = f]

Done(f) == f.pc = "done"

\* executor.submit(component.setup_domain, domain_to_setup)
\* config is what the validation of the config returned, outcome is what the setup routine of the domain did when it was invoked
\* last, wait_time the argument of the last time.sleep; scheduled holds
\* the optional dependencies that setup_domain scheduled ahead of the task,
\* optional the ones whose futures the last attempt collected
NewFuture(d, scheduled) ==
    [d |-> d, pc |-> "queued", tries |-> 1, config |-> "unset", waits |-> {},
     result |-> "none", invoked |-> 0, outcome |-> "none", wait_time |-> 0,
     scheduled |-> scheduled, optional |-> {}]

domain_dependencies(t) ==
    /\ t = "main"
    /\ sched[t].pc = "domain_dependencies"
    /\ LET flat == Flat(DOMAINS_TO_SETUP)
           ids == CollectIdentifiers(flat, DOMAIN_IDENTIFIERS)
           st == PruneAll([tbl |-> DOMAINS_TO_SETUP, lists |-> domains_to_setup, err |-> ""],
                          flat, ids)
       IN /\ DOMAIN_IDENTIFIERS' = ids
          /\ DOMAINS_TO_SETUP' = st.tbl
          /\ domains_to_setup' = st.lists
          /\ unsatisfied' = {d \in Range(flat) : Unsatisfied(d, ids)}
          /\ sched' = [sched EXCEPT ![t].pc = IF st.err = "" THEN "loop" ELSE "raised",
                                    ![t].err = st.err]
    /\ UNCHANGED storage_vars
    /\ UNCHANGED <<LOADING, LOADED, FAILED, DOMAIN_SETUP_TASKS, futures, max_workers,
                   orch, threads, timers>>

\* for domain in table: for domain_to_setup in values: setup_domain(...)
setup_domains_loop(t) ==
    /\ t = "main"
    /\ sched[t].pc = "loop"
    /\ sched[t].stack = <<>>
    /\ LET flat == Flat(DOMAINS_TO_SETUP)
       IN IF sched[t].idx <= Len(flat)
          THEN sched' = [sched EXCEPT ![t].stack = <<Frame(flat[sched[t].idx])>>,
                                      ![t].idx = @ + 1]
          ELSE sched' = [sched EXCEPT ![t].pc = "join"]
    /\ UNCHANGED storage_vars
    /\ UNCHANGED <<LOADING, LOADED, FAILED, domains_to_setup, DOMAINS_TO_SETUP,
                   DOMAIN_IDENTIFIERS, DOMAIN_SETUP_TASKS, futures, max_workers,
                   orch, threads, timers, unsatisfied>>

\* with DOMAIN_SETUP_LOCK: identifier in tasks.get(domain, {})
AlreadySubmitted(tasks, d) == Key(d) \in DOMAIN tasks

Return(t) ==
    [sched EXCEPT ![t].stack = Pop(@),
                  ![t].pc = IF t # "main" /\ Len(sched[t].stack) = 1
                            THEN "returned" ELSE @]

Raise(t, err) == [sched EXCEPT ![t].pc = "raised", ![t].err = err, ![t].stack = <<>>]

\* setup_domain: the check made while DOMAIN_SETUP_LOCK is held
setup_domain_check(t) ==
    /\ sched[t].pc \in {"loop", "call"}
    /\ sched[t].stack # <<>>
    /\ Top(t).phase = "check"
    /\ IF AlreadySubmitted(DOMAIN_SETUP_TASKS, Top(t).d)
       THEN sched' = Return(t)
       ELSE sched' = [sched EXCEPT ![t].stack = SetTop(@, [Top(t) EXCEPT !.phase = "require"])]
    /\ UNCHANGED storage_vars
    /\ UNCHANGED <<LOADING, LOADED, FAILED, domains_to_setup, DOMAINS_TO_SETUP,
                   DOMAIN_IDENTIFIERS, DOMAIN_SETUP_TASKS, futures, max_workers,
                   orch, threads, timers, unsatisfied>>

\* The recursive call setup_domain(vis, executor, table[ref.domain][ref.identifier])
\* made by the call whose frame is f when the callee returns
Call(t, ref, f) ==
    IF ~HasKey(DOMAINS_TO_SETUP, ref[1], ref[2])
    THEN Raise(t, "KeyError")
    ELSE IF Len(sched[t].stack) >= RecursionLimit
    THEN Raise(t, "RecursionError")
    ELSE [sched EXCEPT ![t].stack =
            Append(SetTop(@, f),
                   Frame(Lookup(DOMAINS_TO_SETUP, ref[1], ref[2])))]

\* setup_domain: for required_domain in domain_to_setup.require_domains
setup_domain_required(t) ==
    /\ sched[t].pc \in {"loop", "call"}
    /\ sched[t].stack # <<>>
    /\ Top(t).phase = "require"
    /\ LET f == Top(t)
       IN IF f.i <= Len(f.d.require_domains)
          THEN sched' = Call(t, f.d.require_domains[f.i], [f EXCEPT !.i = @ + 1])
          ELSE sched' = [sched EXCEPT ![t].stack =
                            SetTop(@, [f EXCEPT !.phase = "optional", !.i = 1])]
    /\ UNCHANGED storage_vars
    /\ UNCHANGED <<LOADING, LOADED, FAILED, domains_to_setup, DOMAINS_TO_SETUP,
                   DOMAIN_IDENTIFIERS, DOMAIN_SETUP_TASKS, futures, max_workers,
                   orch, threads, timers, unsatisfied>>

\* setup_domain: for optional_domain in domain_to_setup.optional_domains
setup_domain_optional(t) ==
    /\ sched[t].pc \in {"loop", "call"}
    /\ sched[t].stack # <<>>
    /\ Top(t).phase = "optional"
    /\ LET f == Top(t)
       IN IF f.i <= Len(f.d.optional_domains)
          THEN IF Registered(DOMAIN_IDENTIFIERS, f.d.optional_domains[f.i])
               THEN sched' = Call(t, f.d.optional_domains[f.i],
                                  [f EXCEPT !.i = @ + 1,
                                            !.opt = @ \cup {f.d.optional_domains[f.i]}])
               ELSE sched' = [sched EXCEPT ![t].stack = SetTop(@, [f EXCEPT !.i = @ + 1])]
          ELSE sched' = [sched EXCEPT ![t].stack = SetTop(@, [f EXCEPT !.phase = "submit"])]
    /\ UNCHANGED storage_vars
    /\ UNCHANGED <<LOADING, LOADED, FAILED, domains_to_setup, DOMAINS_TO_SETUP,
                   DOMAIN_IDENTIFIERS, DOMAIN_SETUP_TASKS, futures, max_workers,
                   orch, threads, timers, unsatisfied>>

submit_setup_domain_Remove(t) ==
    /\ sched[t].pc \in {"loop", "call"}
    /\ sched[t].stack # <<>>
    /\ Top(t).phase = "submit"
    /\ LET d == Top(t).d
       IN /\ futures' = Append(futures, NewFuture(d, Top(t).opt))
          /\ DOMAIN_SETUP_TASKS' =
                [k \in DOMAIN DOMAIN_SETUP_TASKS \cup {Key(d)} |->
                    IF k = Key(d) THEN Len(futures) + 1 ELSE DOMAIN_SETUP_TASKS[k]]
          /\ DOMAINS_TO_SETUP' = TableDel(DOMAINS_TO_SETUP, d.domain, d.identifier)
    /\ sched' = Return(t)
    /\ UNCHANGED storage_vars
    /\ UNCHANGED <<LOADING, LOADED, FAILED, domains_to_setup,
                   DOMAIN_IDENTIFIERS, max_workers, orch, threads, timers, unsatisfied>>

\* _setup_domain: submit and record the future while DOMAIN_SETUP_LOCK is held
submit_setup_domain(t) ==
    /\ sched[t].pc \in {"loop", "call"}
    /\ sched[t].stack # <<>>
    /\ Top(t).phase = "submit"
    /\ LET d == Top(t).d
       IN /\ futures' = Append(futures, NewFuture(d, Top(t).opt))
          /\ DOMAIN_SETUP_TASKS' =
                [k \in DOMAIN DOMAIN_SETUP_TASKS \cup {Key(d)} |->
                    IF k = Key(d) THEN Len(futures) + 1 ELSE DOMAIN_SETUP_TASKS[k]]
    /\ sched' = Return(t)
    /\ UNCHANGED storage_vars
    /\ UNCHANGED <<LOADING, LOADED, FAILED, domains_to_setup, DOMAINS_TO_SETUP,
                   DOMAIN_IDENTIFIERS, max_workers, orch, threads, timers, unsatisfied>>

TaskFutures == {DOMAIN_SETUP_TASKS[k] : k \in DOMAIN DOMAIN_SETUP_TASKS}

\* for future in as_completed(all futures of DOMAIN_SETUP_TASKS): future.result()
setup_domains_join(t) ==
    /\ t = "main"
    /\ sched[t].pc = "join"
    /\ \A i \in TaskFutures : Done(futures[i])
    /\ IF \E i \in TaskFutures : futures[i].result = "raised"
       THEN sched' = [sched EXCEPT ![t].pc = "raised", ![t].err = "task"]
       ELSE sched' = [sched EXCEPT ![t].pc = "returned"]
    /\ UNCHANGED storage_vars
    /\ UNCHANGED <<LOADING, LOADED, FAILED, domains_to_setup, DOMAINS_TO_SETUP,
                   DOMAIN_IDENTIFIERS, DOMAIN_SETUP_TASKS, futures, max_workers,
                   orch, threads, timers, unsatisfied>>

(***************************************************************************)
(* Worker tasks: Component.setup_domain(domain_to_setup, tries)            *)
(***************************************************************************)
Running == {i \in 1..Len(futures) : futures[i].pc \notin {"queued", "done"}}

Resolve(i, result) == [futures EXCEPT ![i].pc = "done", ![i].result = result]

\* _setup_dependencies: the futures of the required dependencies
RequiredFutures(d, tasks) == {tasks[r] : r \in Range(d.require_domains)}

\* _setup_dependencies: the futures of the optional dependencies that are
\* in vis.data[DOMAIN_IDENTIFIERS] when the task looks
OptionalWaits(d, ids) == {r \in Range(d.optional_domains) : Registered(ids, r)}

OptionalFutures(d, tasks, ids) == {tasks[o] : o \in OptionalWaits(d, ids)}

WaitList_RequiredOnly(d, tasks, ids) == RequiredFutures(d, tasks)

WaitList(d, tasks, ids) == RequiredFutures(d, tasks) \cup OptionalFutures(d, tasks, ids)

\* a lookup vis.data[DOMAIN_SETUP_TASKS][domain][identifier] that raises KeyError
MissingTask(d, tasks, ids) ==
    \/ \E r \in Range(d.require_domains) : r \notin DOMAIN tasks
    \/ \E o \in Range(d.optional_domains) : Registered(ids, o) /\ o \notin DOMAIN tasks

\* One attempt up to the wait: get_domain and validate_domain_config have
\* run, _setup_dependencies has collected the futures it will wait for.
BeginAttempt(i, config, tries) ==
    IF MissingTask(futures[i].d, DOMAIN_SETUP_TASKS, DOMAIN_IDENTIFIERS)
    THEN Resolve(i, "raised")
    ELSE [futures EXCEPT ![i].pc = "waiting", ![i].config = config, ![i].tries = tries,
                         ![i].waits = WaitList(futures[i].d, DOMAIN_SETUP_TASKS,
                                               DOMAIN_IDENTIFIERS),
                         ![i].optional = OptionalWaits(futures[i].d, DOMAIN_IDENTIFIERS)]

\* ThreadPoolExecutor(max_workers=n): a work item is started only while
\* fewer than n workers are occupied
WorkerFree(running, n) == Cardinality(running) < n

NextWorkItem_AnyOrder(fs, i) == fs[i].pc = "queued"

\* The work queue of the pool is first in, first out: the item a worker
\* takes is the oldest one that is still queued
NextWorkItem(fs, i) ==
    /\ fs[i].pc = "queued"
    /\ \A j \in 1..(i - 1) : fs[j].pc # "queued"

\* What the validation of a config returns: None after an error
\* ("rejected"), or the accepted config, which is an empty mapping
\* ("empty") or a truthy value ("valid")
ConfigValues == {"rejected", "empty", "valid"}

\* if config:
Truthy(config) == config = "valid"

\* A pool worker takes the task: the domain module is imported (get_domain
\* is outside every try block), the config is validated and the
\* dependencies are collected.
Component_setup_domain(i) ==
    /\ i \in 1..Len(futures)
    /\ NextWorkItem(futures, i)
    /\ WorkerFree(Running, max_workers)
    /\ \E load \in {"ok", "error"}, config \in ConfigValues :
          futures' = IF load = "error" THEN Resolve(i, "raised")
                     ELSE BeginAttempt(i, config, 1)
    /\ UNCHANGED storage_vars
    /\ UNCHANGED <<LOADING, LOADED, FAILED, domains_to_setup, DOMAINS_TO_SETUP,
                   DOMAIN_IDENTIFIERS, DOMAIN_SETUP_TASKS, sched, max_workers,
                   orch, threads, timers, unsatisfied>>

\* What _setup_dependencies makes of the awaited futures, all done:
\* future.result() re-raises, a result that is not True is a failure.
DependenciesResult(fs, waits) ==
    IF \E w \in waits : fs[w].result = "raised" THEN "raised"
    ELSE IF \E w \in waits : fs[w].result # "true" THEN "false"
    ELSE "true"

\* The task may leave the wait of _setup_dependencies
DependenciesDone(fs, waits) == \A w \in waits : Done(fs[w])

\* _setup_dependencies returns; setup_domain returns False, or invokes the
\* setup routine of the domain when the config is truthy
setup_dependencies(i) ==
    /\ i \in 1..Len(futures)
    /\ futures[i].pc = "waiting"
    /\ DependenciesDone(futures, futures[i].waits)
    /\ LET r == DependenciesResult(futures, futures[i].waits)
       IN futures' = IF r = "raised" THEN Resolve(i, "raised")
                     ELSE IF r = "false" THEN Resolve(i, "false")
                     ELSE IF ~Truthy(futures[i].config) THEN Resolve(i, "false")
                     ELSE [futures EXCEPT ![i].pc = "in_setup", ![i].invoked = @ + 1]
    /\ UNCHANGED storage_vars
    /\ UNCHANGED <<LOADING, LOADED, FAILED, domains_to_setup, DOMAINS_TO_SETUP,
                   DOMAIN_IDENTIFIERS, DOMAIN_SETUP_TASKS, sched, max_workers,
                   orch, threads, timers, unsatisfied>>

SetupOutcomes == {"true", "false", "nonbool", "notready", "raise"}

\* result is True -> True; result is False or not a boolean -> False
BooleanOutcome(outcome) == IF outcome = "true" THEN "true" ELSE "false"

Min(a, b) == IF a <= b THEN a ELSE b

WaitTime_Uncapped(tries, interval, interval_max) == tries * interval

\* wait_time = min(tries * RETRY_INTERVAL, RETRY_INTERVAL_MAX)
WaitTime(tries, interval, interval_max) == Min(tries * interval, interval_max)

\* viseron.const
DOMAIN_RETRY_INTERVAL == 3
DOMAIN_RETRY_INTERVAL_MAX == 60

\* domain_module.setup has returned or raised with the given outcome
domain_setup_outcome(i, outcome) ==
    LET d == futures[i].d
        fs == [futures EXCEPT ![i].outcome = outcome]
    IN CASE outcome \in {"true", "false", "nonbool"} ->
              /\ futures' = [fs EXCEPT ![i].pc = "done", ![i].result = BooleanOutcome(outcome)]
              /\ UNCHANGED DOMAIN_IDENTIFIERS
         [] outcome = "notready" ->
              \* time.sleep(wait_time)
              /\ futures' = [fs EXCEPT ![i].pc = "sleeping",
                                       ![i].wait_time =
                                           WaitTime(futures[i].tries, DOMAIN_RETRY_INTERVAL,
                                                    DOMAIN_RETRY_INTERVAL_MAX)]
              /\ UNCHANGED DOMAIN_IDENTIFIERS
         [] outcome = "raise" ->
              \* vis.data[DOMAIN_IDENTIFIERS][domain].remove(identifier),
              \* only KeyError is caught
              IF d.domain \notin DOMAIN DOMAIN_IDENTIFIERS
              THEN /\ futures' = [fs EXCEPT ![i].pc = "cleanup"]
                   /\ UNCHANGED DOMAIN_IDENTIFIERS
              ELSE IF d.identifier \in Range(DOMAIN_IDENTIFIERS[d.domain])
              THEN /\ futures' = [fs EXCEPT ![i].pc = "cleanup"]
                   /\ DOMAIN_IDENTIFIERS' =
                         [DOMAIN_IDENTIFIERS EXCEPT ![d.domain] =
                             RemoveFirst(@, d.identifier)]
              ELSE /\ futures' = [fs EXCEPT ![i].pc = "done", ![i].result = "raised"]
                   /\ UNCHANGED DOMAIN_IDENTIFIERS

\* domain_module.setup returns or raises
domain_setup_returns(i) ==
    /\ i \in 1..Len(futures)
    /\ futures[i].pc = "in_setup"
    /\ \E outcome \in SetupOutcomes :
          /\ outcome = "notready" => futures[i].tries < MaxTries
          /\ domain_setup_outcome(i, outcome)
    /\ UNCHANGED storage_vars
    /\ UNCHANGED <<LOADING, LOADED, FAILED, domains_to_setup, DOMAINS_TO_SETUP,
                   DOMAIN_SETUP_TASKS, sched, max_workers, orch, threads, timers, unsatisfied>>

\* after the except block of an unexpected exception: result is False
Component_setup_domain_return(i) ==
    /\ i \in 1..Len(futures)
    /\ futures[i].pc = "cleanup"
    /\ futures' = Resolve(i, "false")
    /\ UNCHANGED storage_vars
    /\ UNCHANGED <<LOADING, LOADED, FAILED, domains_to_setup, DOMAINS_TO_SETUP,
                   DOMAIN_IDENTIFIERS, DOMAIN_SETUP_TASKS, sched, max_workers,
                   orch, threads, timers, unsatisfied>>

Component_setup_domain_retry_NotAwaited(i) ==
    /\ i \in 1..Len(futures)
    /\ futures[i].pc = "sleeping"
    /\ futures' = Resolve(i, "false")
    /\ UNCHANGED storage_vars
    /\ UNCHANGED <<LOADING, LOADED, FAILED, domains_to_setup, DOMAINS_TO_SETUP,
                   DOMAIN_IDENTIFIERS, DOMAIN_SETUP_TASKS, sched, max_workers,
                   orch, threads, timers, unsatisfied>>

\* after time.sleep(wait_time): setup_domain(domain_to_setup, tries + 1) on a
\* pool of its own, the outer call returning its result.  The module is
\* imported already and the same config is validated again.
Component_setup_domain_retry(i) ==
    /\ i \in 1..Len(futures)
    /\ futures[i].pc = "sleeping"
    /\ futures' = BeginAttempt(i, futures[i].config, futures[i].tries + 1)
    /\ UNCHANGED storage_vars
    /\ UNCHANGED <<LOADING, LOADED, FAILED, domains_to_setup, DOMAINS_TO_SETUP,
                   DOMAIN_IDENTIFIERS, DOMAIN_SETUP_TASKS, sched, max_workers,
                   orch, threads, timers, unsatisfied>>

(***************************************************************************)
(* helpers/storage.py: class Storage.  A Python dict is the sequence of    *)
(* its items; the key of an item is a string or an integer.  A JSON        *)
(* document holds the same items with every key a string.                  *)
(***************************************************************************)
StorageKeys == {"foo"}
StorageObjects == {"s1", "s2"}
Versions == {1, 2}

Item(key, is_str, value) == [key |-> key, is_str |-> is_str, value |-> value]

\* the dicts handed to save: {}, {"a": 1} and {1: 1}
DataValues == {<<>>, <<Item("a", TRUE, 1)>>, <<Item("1", FALSE, 1)>>}

\* json.dumps: the keys of an object are written as strings
json_dumps(d) == [i \in DOMAIN d |-> [d[i] EXCEPT !.is_str = TRUE]]

\* json.load: the keys of an object are read as strings
json_load(text) == [i \in DOMAIN text |-> [text[i] EXCEPT !.is_str = TRUE]]

\* self._data: None, the empty dict (data = {} in _load) or
\* {"version": version, "data": data}; a file: absent or such a document
None == [kind |-> "None", version |-> 0, data |-> <<>>]
EmptyDict == [kind |-> "empty", version |-> 0, data |-> <<>>]
Document(version, data) == [kind |-> "document", version |-> version, data |-> data]
NoFile == [kind |-> "absent", version |-> 0, data |-> <<>>]

\* what the last call on a Storage object returned or raised
NoReturn == [kind |-> "none", value |-> <<>>]
Returned(value) == [kind |-> "value", value |-> value]
Raised(error) == [kind |-> error, value |-> <<>>]

\* Storage.__init__
NewStorage(key, version) == [key |-> key, version |-> version, data |-> None, ret |-> NoReturn]

NoStorage ==
    /\ files = [k \in StorageKeys |-> NoFile]
    /\ storage = [o \in StorageObjects |-> NewStorage("foo", 1)]
    /\ saved = [k \in StorageKeys |-> [known |-> FALSE, data |-> <<>>]]

\* only the call made last has its outcome recorded
Forget(objs) == [o \in StorageObjects |-> [objs[o] EXCEPT !.ret = NoReturn]]

\* Storage.save(data); io is whether _write succeeds
Storage_save(o, d, io) ==
    LET self == storage[o]
        doc == Document(self.version, d)
    IN /\ storage' = [Forget(storage) EXCEPT
                         ![o].data = doc,
                         ![o].ret = IF io THEN Returned(<<>>) ELSE Raised("StorageWriteError")]
       /\ files' = IF io THEN [files EXCEPT ![self.key] = Document(doc.version, json_dumps(doc.data))]
                   ELSE files
       /\ saved' = [saved EXCEPT ![self.key] = [known |-> io, data |-> IF io THEN d ELSE <<>>]]
       /\ UNCHANGED setup_vars

\* return self._data["data"]
DataOf(loaded) == IF loaded.kind = "document" THEN Returned(loaded.data) ELSE Raised("KeyError")

\* Storage._load when no OSError other than FileNotFoundError is met
Storage_load(self) ==
    IF files[self.key].kind = "absent" THEN EmptyDict
    ELSE Document(files[self.key].version, json_load(files[self.key].data))

\* the property Storage.data; io is whether a file that exists can be read
\* (if not, _load raises StorageReadError and self._data stays None)
Storage_data(o, io) ==
    LET self == storage[o]
    IN /\ IF self.data = None
          THEN IF files[self.key].kind # "absent" /\ ~io
               THEN storage' = [Forget(storage) EXCEPT ![o].ret = Raised("StorageReadError")]
               ELSE storage' = [Forget(storage) EXCEPT
                                   ![o].data = Storage_load(self),
                                   ![o].ret = DataOf(Storage_load(self))]
          ELSE storage' = [Forget(storage) EXCEPT ![o].ret = DataOf(self.data)]
       /\ UNCHANGED <<files, saved>>
       /\ UNCHANGED setup_vars

(***************************************************************************)
(* setup_components and setup_component                                    *)
(*                                                                         *)
(* threads[c] is the call setup_component(vis, c, tries) that is running,  *)
(* or ran last, for component c: made by the thread of setup_components    *)
(* ("main"), by the thread setup_components starts for c ("thread") or by  *)
(* a retry timer ("timer").  Timing: a retry timer waits wait_time seconds *)
(* and what is left of the attempt that started it is bookkeeping, so the  *)
(* timer fires after that attempt has ended; thread.join(timeout=30) times *)
(* out only on a thread that is inside the setup routine of its component. *)
(***************************************************************************)
\* ThreadPoolExecutor(max_workers=100) of setup_domains
MAX_WORKERS == 100

LOGGING_COMPONENTS == {"logger"}
CORE_COMPONENTS == {"data_stream"}
DEFAULT_COMPONENTS == {"webserver"}

\* component names that the config may hold
ConfigNames == {"u1"}

Components == LOGGING_COMPONENTS \cup CORE_COMPONENTS \cup DEFAULT_COMPONENTS \cup ConfigNames

\* the keys under which components queue domains while they are set up
RegPairs == {PairSeq[1]}

RECURSIVE SetSeq(_)
SetSeq(S) ==
    IF S = {} THEN <<>>
    ELSE LET x == CHOOSE y \in S : TRUE IN <<x>> \o SetSeq(S \ {x})

\* the components set up one after the other by the thread of setup_components
Sequential(config) ==
    SetSeq(config \cap LOGGING_COMPONENTS) \o SetSeq(CORE_COMPONENTS) \o SetSeq(DEFAULT_COMPONENTS)

\* the components set up on a thread each
Parallel(config) ==
    ((config \ LOGGING_COMPONENTS) \ CORE_COMPONENTS) \ DEFAULT_COMPONENTS

Configured(config) == Range(Sequential(config)) \cup Parallel(config)

\* result is the variable result of Component.setup_component and, once
\* that method has returned, the value it returned; outcome is what the
\* attempt met: a failed import, a rejected config ("invalid"), an accepted
\* config that is empty ("empty") or what the setup routine of the
\* component did
IdleCall ==
    [pc |-> "idle", tries |-> 1, by |-> "none", i |-> 1, result |-> "none", outcome |-> "none"]

\* setup_component(vis, component, tries) is entered
StartCall(call, by, tries) ==
    [call EXCEPT !.pc = IF tries > 1 THEN "del_failed" ELSE "set_loading",
                 !.tries = tries, !.by = by, !.i = 1, !.result = "none", !.outcome = "none"]

\* the call has returned, or an exception has left it
EndCall(call, how) == [call EXCEPT !.pc = how, !.by = "none", !.i = 1]

Active(call) == call.pc \notin {"idle", "returned", "raised"}

\* The call for c has ended: the thread of setup_components goes on with
\* the next component, or is left by the exception
OrchAfter(c, how) ==
    IF threads[c].by # "main" THEN orch
    ELSE IF how = "raised" THEN [orch EXCEPT !.pc = "raised"]
    ELSE [orch EXCEPT !.k = @ + 1]

\* setup_components: the loops over the logging, core and default components
setup_components_sequential ==
    /\ orch.pc = "sequential"
    /\ orch.k <= Len(Sequential(orch.config))
    /\ LET c == Sequential(orch.config)[orch.k]
       IN /\ threads[c].pc = "idle"
          /\ threads' = [threads EXCEPT ![c] = StartCall(@, "main", 1)]
    /\ UNCHANGED storage_vars
    /\ UNCHANGED <<LOADING, LOADED, FAILED, domains_to_setup, DOMAINS_TO_SETUP,
                   DOMAIN_IDENTIFIERS, DOMAIN_SETUP_TASKS, futures, sched, max_workers,
                   orch, timers, unsatisfied>>

\* setup_components: thread.start() for every other configured component
setup_components_threads ==
    /\ orch.pc = "sequential"
    /\ orch.k > Len(Sequential(orch.config))
    /\ threads' = [c \in Components |->
                     IF c \in Parallel(orch.config) THEN StartCall(threads[c], "thread", 1)
                     ELSE threads[c]]
    /\ orch' = [orch EXCEPT !.pc = "join"]
    /\ UNCHANGED storage_vars
    /\ UNCHANGED <<LOADING, LOADED, FAILED, domains_to_setup, DOMAINS_TO_SETUP,
                   DOMAIN_IDENTIFIERS, DOMAIN_SETUP_TASKS, futures, sched, max_workers,
                   timers, unsatisfied>>

Joined_NoTimeout(call) == ~Active(call)

\* join(thread): the thread has ended, or thread.join(timeout=30) gave up
Joined(call) == ~Active(call) \/ call.pc = "in_setup"

\* setup_components: every join has returned
setup_components_join ==
    /\ orch.pc = "join"
    /\ \A c \in Parallel(orch.config) : threads[c].tries > 1 \/ Joined(threads[c])
    /\ orch' = [orch EXCEPT !.pc = "returned"]
    /\ UNCHANGED storage_vars
    /\ UNCHANGED <<LOADING, LOADED, FAILED, domains_to_setup, DOMAINS_TO_SETUP,
                   DOMAIN_IDENTIFIERS, DOMAIN_SETUP_TASKS, futures, sched, max_workers,
                   threads, timers, unsatisfied>>

\* a retry timer fires: setup_component(vis, component, tries=tries + 1)
Timer_fires(c) ==
    /\ \E tm \in timers :
          /\ tm.component = c
          /\ ~Active(threads[c])
          /\ threads' = [threads EXCEPT ![c] = StartCall(@, "timer", tm.tries)]
          /\ timers' = timers \ {tm}
    /\ UNCHANGED storage_vars
    /\ UNCHANGED <<LOADING, LOADED, FAILED, domains_to_setup, DOMAINS_TO_SETUP,
                   DOMAIN_IDENTIFIERS, DOMAIN_SETUP_TASKS, futures, sched, max_workers,
                   orch, unsatisfied>>

DelFailed_Keep(failed, c) == failed

\* del vis.data[FAILED][component.name], the key being present
DelFailed(failed, c) == failed \ {c}

\* if tries > 1: del vis.data[FAILED][component.name]
setup_component_del_failed(c) ==
    /\ threads[c].pc = "del_failed"
    /\ IF c \in FAILED
       THEN /\ FAILED' = DelFailed(FAILED, c)
            /\ threads' = [threads EXCEPT ![c].pc = "set_loading"]
            /\ UNCHANGED orch
       ELSE /\ threads' = [threads EXCEPT ![c] = EndCall(@, "raised")]
            /\ orch' = OrchAfter(c, "raised")
            /\ UNCHANGED FAILED
    /\ UNCHANGED storage_vars
    /\ UNCHANGED <<LOADING, LOADED, domains_to_setup, DOMAINS_TO_SETUP,
                   DOMAIN_IDENTIFIERS, DOMAIN_SETUP_TASKS, futures, sched, max_workers,
                   timers, unsatisfied>>

\* get_component: the module is imported, is not found, or raises another
\* error while it is imported
LoadOutcomes(tries) == IF tries = 1 THEN {"ok", "ModuleNotFoundError", "error"} ELSE {"ok"}

\* validate_component_config: None after an error, the validated config, or
\* True when the module has no CONFIG_SCHEMA
ConfigOutcomes(tries) == IF tries = 1 THEN ConfigValues ELSE {"valid"}

\* vis.data[LOADING][component.name] = component, then
\* Component.setup_component up to the call of the setup routine
Component_setup_component(c) ==
    /\ threads[c].pc = "set_loading"
    /\ LOADING' = LOADING \cup {c}
    /\ \E load \in LoadOutcomes(threads[c].tries), config \in ConfigOutcomes(threads[c].tries) :
          CASE load = "ModuleNotFoundError" ->
                  /\ threads' = [threads EXCEPT ![c].pc = "set_failed", ![c].outcome = load]
                  /\ UNCHANGED orch
            [] load = "error" ->
                  /\ threads' = [threads EXCEPT ![c] = EndCall([@ EXCEPT !.outcome = load], "raised")]
                  /\ orch' = OrchAfter(c, "raised")
            [] load = "ok" ->
                  /\ threads' = IF Truthy(config)
                                THEN [threads EXCEPT ![c].pc = "in_setup"]
                                ELSE [threads EXCEPT ![c].pc = "purge", ![c].result = "false",
                                                     ![c].outcome = IF config = "rejected"
                                                                    THEN "invalid" ELSE "empty"]
                  /\ UNCHANGED orch
    /\ UNCHANGED storage_vars
    /\ UNCHANGED <<LOADED, FAILED, domains_to_setup, DOMAINS_TO_SETUP,
                   DOMAIN_IDENTIFIERS, DOMAIN_SETUP_TASKS, futures, sched, max_workers,
                   timers, unsatisfied>>

\* the setup routine of the component queues a domain
component_add_domain_to_setup(c) ==
    /\ threads[c].pc = "in_setup"
    /\ Len(domains_to_setup[c]) < MaxRegs
    /\ \E p \in RegPairs :
          LET r == add_domain_to_setup(domains_to_setup, DOMAINS_TO_SETUP,
                                       DomainToSetup(c, p[1], p[2], <<>>, <<>>))
          IN /\ domains_to_setup' = r.lists
             /\ DOMAINS_TO_SETUP' = r.tbl
    /\ UNCHANGED storage_vars
    /\ UNCHANGED <<LOADING, LOADED, FAILED, DOMAIN_IDENTIFIERS, DOMAIN_SETUP_TASKS,
                   futures, sched, max_workers, orch, threads, timers, unsatisfied>>

\* result of Component.setup_component after component_module.setup
ComponentResult(outcome) ==
    CASE outcome = "true" -> "true"
      [] outcome = "nonbool" -> "nonbool"
      [] OTHER -> "false"

\* viseron.const
COMPONENT_RETRY_INTERVAL == 3
COMPONENT_RETRY_INTERVAL_MAX == 60

\* threading.Timer(wait_time, setup_component, kwargs={"tries": tries + 1}).start()
StartTimer(tms, c, tries, outcome) ==
    IF outcome = "notready"
    THEN tms \cup {[component |-> c, tries |-> tries + 1,
                    wait_time |-> WaitTime(tries, COMPONENT_RETRY_INTERVAL,
                                           COMPONENT_RETRY_INTERVAL_MAX)]}
    ELSE tms

\* component_module.setup has returned or raised with the given outcome
component_setup_outcome(c, outcome) ==
    /\ timers' = StartTimer(timers, c, threads[c].tries, outcome)
    /\ threads' = [threads EXCEPT
                      ![c].outcome = outcome,
                      ![c].result = ComponentResult(outcome),
                      ![c].pc = IF ComponentResult(outcome) = "true"
                                THEN "set_loaded" ELSE "purge"]

\* component_module.setup returns or raises
component_setup_returns(c) ==
    /\ threads[c].pc = "in_setup"
    /\ \E outcome \in SetupOutcomes :
          /\ outcome = "notready" => threads[c].tries < MaxTries
          /\ component_setup_outcome(c, outcome)
    /\ UNCHANGED storage_vars
    /\ UNCHANGED <<LOADING, LOADED, FAILED, domains_to_setup, DOMAINS_TO_SETUP,
                   DOMAIN_IDENTIFIERS, DOMAIN_SETUP_TASKS, futures, sched, max_workers,
                   orch, unsatisfied>>

\* for domain_to_setup in self.domains_to_setup: del table[domain][identifier];
\* then self.domains_to_setup.clear()
Component_setup_component_purge(c) ==
    /\ threads[c].pc = "purge"
    /\ LET i == threads[c].i
           lst == domains_to_setup[c]
       IN IF i > Len(lst)
          THEN /\ domains_to_setup' = [domains_to_setup EXCEPT ![c] = <<>>]
               /\ threads' = [threads EXCEPT ![c].pc = "set_failed", ![c].result = "false"]
               /\ UNCHANGED <<DOMAINS_TO_SETUP, orch>>
          ELSE IF HasKey(DOMAINS_TO_SETUP, lst[i].domain, lst[i].identifier)
          THEN /\ DOMAINS_TO_SETUP' = TableDel(DOMAINS_TO_SETUP, lst[i].domain, lst[i].identifier)
               /\ threads' = [threads EXCEPT ![c].i = i + 1]
               /\ UNCHANGED <<domains_to_setup, orch>>
          ELSE /\ threads' = [threads EXCEPT ![c] = EndCall(@, "raised")]
               /\ orch' = OrchAfter(c, "raised")
               /\ UNCHANGED <<domains_to_setup, DOMAINS_TO_SETUP>>
    /\ UNCHANGED storage_vars
    /\ UNCHANGED <<LOADING, LOADED, FAILED, DOMAIN_IDENTIFIERS, DOMAIN_SETUP_TASKS,
                   futures, sched, max_workers, timers, unsatisfied>>

\* vis.data[LOADED][component.name] = component
setup_component_set_loaded(c) ==
    /\ threads[c].pc = "set_loaded"
    /\ LOADED' = LOADED \cup {c}
    /\ threads' = [threads EXCEPT ![c].pc = "del_loading"]
    /\ UNCHANGED storage_vars
    /\ UNCHANGED <<LOADING, FAILED, domains_to_setup, DOMAINS_TO_SETUP,
                   DOMAIN_IDENTIFIERS, DOMAIN_SETUP_TASKS, futures, sched, max_workers,
                   orch, timers, unsatisfied>>

\* vis.data[FAILED][component.name] = component
setup_component_set_failed(c) ==
    /\ threads[c].pc = "set_failed"
    /\ FAILED' = FAILED \cup {c}
    /\ threads' = [threads EXCEPT ![c].pc = "del_loading"]
    /\ UNCHANGED storage_vars
    /\ UNCHANGED <<LOADING, LOADED, domains_to_setup, DOMAINS_TO_SETUP,
                   DOMAIN_IDENTIFIERS, DOMAIN_SETUP_TASKS, futures, sched, max_workers,
                   orch, timers, unsatisfied>>

\* del vis.data[LOADING][component.name]; setup_component returns
setup_component_del_loading(c) ==
    /\ threads[c].pc = "del_loading"
    /\ LOADING' = LOADING \ {c}
    /\ threads' = [threads EXCEPT ![c] = EndCall(@, "returned")]
    /\ orch' = OrchAfter(c, "returned")
    /\ UNCHANGED storage_vars
    /\ UNCHANGED <<LOADED, FAILED, domains_to_setup, DOMAINS_TO_SETUP,
                   DOMAIN_IDENTIFIERS, DOMAIN_SETUP_TASKS, futures, sched, max_workers,
                   timers, unsatisfied>>

Init ==
    /\ LOADING = {} /\ LOADED = {} /\ FAILED = {}
    /\ domains_to_setup = [c \in Components |-> <<>>]
    /\ DOMAINS_TO_SETUP = EmptyTable
    /\ DOMAIN_IDENTIFIERS = << >>
    /\ DOMAIN_SETUP_TASKS = << >>
    /\ futures = <<>>
    /\ sched = [t \in {"main"} |->
                  [pc |-> "idle", idx |-> 1, stack |-> <<>>, err |-> ""]]
    /\ max_workers = MAX_WORKERS
    /\ \E config \in SUBSET ConfigNames : orch = [pc |-> "sequential", k |-> 1, config |-> config]
    /\ threads = [c \in Components |-> IdleCall]
    /\ timers = {}
    /\ unsatisfied = {}
    /\ NoStorage

Next ==
    \/ setup_components_sequential
    \/ setup_components_threads
    \/ setup_components_join
    \/ \E c \in Components :
          \/ Timer_fires(c)
          \/ setup_component_del_failed(c)
          \/ Component_setup_component(c)
          \/ component_add_domain_to_setup(c)
          \/ component_setup_returns(c)
          \/ Component_setup_component_purge(c)
          \/ setup_component_set_loaded(c)
          \/ setup_component_set_failed(c)
          \/ setup_component_del_loading(c)

Spec == Init /\ [][Next]_vars

\* Every statement of a running thread is executed in the end and a timer
\* fires when its time has passed; a setup routine, which is code of the
\* component, need not return.
Fairness ==
    /\ WF_vars(setup_components_sequential)
    /\ WF_vars(setup_components_threads)
    /\ WF_vars(setup_components_join)
    /\ \A c \in Components :
          /\ WF_vars(Timer_fires(c))
          /\ WF_vars(setup_component_del_failed(c))
          /\ WF_vars(Component_setup_component(c))
          /\ WF_vars(Component_setup_component_purge(c))
          /\ WF_vars(setup_component_set_loaded(c))
          /\ WF_vars(setup_component_set_failed(c))
          /\ WF_vars(setup_component_del_loading(c))

FairSpec == Spec /\ Fairness

(***************************************************************************)
(* DomainSpec: setup_domains over the domains queued by loaded components  *)
(***************************************************************************)

\* the pairs at the indices S, in the order of PairSeq
RECURSIVE PickSeq(_)
PickSeq(S) ==
    IF S = {} THEN <<>>
    ELSE LET m == CHOOSE x \in S : \A y \in S : x <= y
         IN <<PairSeq[m]>> \o PickSeq(S \ {m})

DepLists(n) == {PickSeq(S) : S \in {T \in SUBSET (1..Len(PairSeq)) : Cardinality(T) <= n}}

Shapes == {s \in [require_domains : DepLists(MaxRequire), optional_domains : DepLists(MaxOptional)] :
             Len(s.require_domains) + Len(s.optional_domains) <= MaxDeps}

NoDeps == [require_domains |-> <<>>, optional_domains |-> <<>>]

\* the component that queues the domain of a key
Owner(p) == IF p[1] = "t1" THEN "u1" ELSE "webserver"

RECURSIVE Registrations(_, _, _, _)
Registrations(i, present, shape, acc) ==
    IF i > Len(PairSeq) THEN acc
    ELSE LET p == PairSeq[i]
         IN IF p \in present
            THEN Registrations(i + 1, present, shape,
                    add_domain_to_setup(acc.lists, acc.tbl,
                        DomainToSetup(Owner(p), p[1], p[2],
                                      shape[p].require_domains, shape[p].optional_domains)))
            ELSE Registrations(i + 1, present, shape, acc)

\* the state in which setup_domains is called, with a pool of n workers
DomainsQueued(n) ==
    /\ \E present \in SUBSET Pairs :
       \E shape \in [Pairs -> Shapes] :
          /\ \A p \in Pairs \ present : shape[p] = NoDeps
          /\ LET r == Registrations(1, present, shape,
                        [lists |-> [c \in Components |-> <<>>], tbl |-> EmptyTable])
             IN /\ domains_to_setup = r.lists
                /\ DOMAINS_TO_SETUP = r.tbl
    /\ LOADING = {} /\ LOADED = Components /\ FAILED = {}
    /\ DOMAIN_IDENTIFIERS = << >>
    /\ DOMAIN_SETUP_TASKS = << >>
    /\ futures = <<>>
    /\ sched = [t \in {"main"} |->
                  [pc |-> "domain_dependencies", idx |-> 1, stack |-> <<>>, err |-> ""]]
    /\ max_workers = n
    /\ orch = [pc |-> "returned", k |-> 1, config |-> ConfigNames]
    /\ threads = [c \in Components |-> IdleCall]
    /\ timers = {}
    /\ unsatisfied = {}
    /\ NoStorage

InitDomains == DomainsQueued(MAX_WORKERS)

SchedNext ==
    \E t \in DOMAIN sched :
        \/ domain_dependencies(t)
        \/ setup_domains_loop(t)
        \/ setup_domain_check(t)
        \/ setup_domain_required(t)
        \/ setup_domain_optional(t)
        \/ submit_setup_domain(t)
        \/ setup_domains_join(t)

WorkerNext ==
    \E i \in 1..Len(futures) :
        \/ Component_setup_domain(i)
        \/ setup_dependencies(i)
        \/ domain_setup_returns(i)
        \/ Component_setup_domain_return(i)
        \/ Component_setup_domain_retry(i)

NextDomains == SchedNext \/ WorkerNext

DomainSpec == InitDomains /\ [][NextDomains]_vars

(***************************************************************************)
(* PoolSpec: setup_domains with a pool of few workers                      *)
(***************************************************************************)
InitPool == \E n \in 1..MaxPool : DomainsQueued(n)

PoolSpec == InitPool /\ [][NextDomains]_vars

(***************************************************************************)
(* ConcSpec: two threads call setup_domain on entries of a table that      *)
(* domain_dependencies has left unpruned                                   *)
(***************************************************************************)
ConcPairs == {PairSeq[1], PairSeq[2]}

ConcShapes == {s \in Shapes : Len(s.require_domains) <= 1 /\ s.optional_domains = <<>>}

InitConc ==
    /\ \E present \in SUBSET ConcPairs :
       \E shape \in [Pairs -> ConcShapes] :
          /\ \A p \in Pairs \ present : shape[p] = NoDeps
          /\ LET r == Registrations(1, present, shape,
                        [lists |-> [c \in Components |-> <<>>], tbl |-> EmptyTable])
                 ids == CollectIdentifiers(Flat(r.tbl), << >>)
             IN /\ \A d \in Range(Flat(r.tbl)) : ~Unsatisfied(d, ids)
                /\ domains_to_setup = r.lists
                /\ DOMAINS_TO_SETUP = r.tbl
                /\ DOMAIN_IDENTIFIERS = ids
                /\ \E da \in Range(Flat(r.tbl)), db \in Range(Flat(r.tbl)) :
                      sched = [t \in {"a", "b"} |->
                                 [pc |-> "call", idx |-> 1,
                                  stack |-> <<Frame(IF t = "a" THEN da ELSE db)>>,
                                  err |-> ""]]
    /\ LOADING = {} /\ LOADED = Components /\ FAILED = {}
    /\ DOMAIN_SETUP_TASKS = << >>
    /\ futures = <<>>
    /\ max_workers = MAX_WORKERS
    /\ orch = [pc |-> "returned", k |-> 1, config |-> ConfigNames]
    /\ threads = [c \in Components |-> IdleCall]
    /\ timers = {}
    /\ unsatisfied = {}
    /\ NoStorage

CallerNext ==
    \E t \in DOMAIN sched :
        \/ setup_domain_check(t)
        \/ setup_domain_required(t)
        \/ setup_domain_optional(t)
        \/ submit_setup_domain(t)

NextConc == CallerNext \/ WorkerNext

ConcSpec == InitConc /\ [][NextConc]_vars

(***************************************************************************)
(* DelaySpec: the NotReady signal at any attempt.  setup_components has    *)
(* returned; data_stream is in the setup routine of a retry, the thread or *)
(* a retry of u1 is in its setup routine, and a domain of webserver is in  *)
(* the setup routine of some attempt.                                      *)
(***************************************************************************)
DelayDomain == DomainToSetup("webserver", "t2", "x", <<>>, <<>>)

InitDelay ==
    /\ \E core \in 2..MaxDelayTries, user \in 1..MaxDelayTries, domain \in 1..MaxDelayTries :
          /\ threads =
                [c \in Components |->
                    CASE c = "data_stream" ->
                            [IdleCall EXCEPT !.pc = "in_setup", !.tries = core, !.by = "timer"]
                      [] c = "u1" ->
                            [IdleCall EXCEPT !.pc = "in_setup", !.tries = user,
                                             !.by = IF user = 1 THEN "thread" ELSE "timer"]
                      [] c = "webserver" ->
                            [IdleCall EXCEPT !.pc = "returned", !.result = "true", !.outcome = "true"]
                      [] OTHER -> IdleCall]
          /\ futures = <<[NewFuture(DelayDomain, {}) EXCEPT
                             !.pc = "in_setup", !.tries = domain, !.invoked = domain,
                             !.config = "valid",
                             !.outcome = IF domain = 1 THEN "none" ELSE "notready",
                             !.wait_time = IF domain = 1 THEN 0
                                           ELSE WaitTime(domain - 1, DOMAIN_RETRY_INTERVAL,
                                                         DOMAIN_RETRY_INTERVAL_MAX)]>>
    /\ LOADING = {"data_stream", "u1"} /\ LOADED = {"webserver"} /\ FAILED = {}
    /\ LET r == add_domain_to_setup([c \in Components |-> <<>>], EmptyTable, DelayDomain)
       IN /\ domains_to_setup = r.lists
          /\ DOMAINS_TO_SETUP = r.tbl
          /\ DOMAIN_IDENTIFIERS = CollectIdentifiers(Flat(r.tbl), << >>)
    /\ DOMAIN_SETUP_TASKS = [k \in {Key(DelayDomain)} |-> 1]
    /\ sched = [t \in {"main"} |-> [pc |-> "join", idx |-> 2, stack |-> <<>>, err |-> ""]]
    /\ max_workers = MAX_WORKERS
    /\ orch = [pc |-> "returned", k |-> 1, config |-> ConfigNames]
    /\ timers = {}
    /\ unsatisfied = {}
    /\ NoStorage

\* the setup routine of the component raises ComponentNotReady
component_not_ready(c) ==
    /\ threads[c].pc = "in_setup"
    /\ component_setup_outcome(c, "notready")
    /\ UNCHANGED storage_vars
    /\ UNCHANGED <<LOADING, LOADED, FAILED, domains_to_setup, DOMAINS_TO_SETUP,
                   DOMAIN_IDENTIFIERS, DOMAIN_SETUP_TASKS, futures, sched, max_workers,
                   orch, unsatisfied>>

\* the setup routine of the domain raises DomainNotReady
domain_not_ready(i) ==
    /\ i \in 1..Len(futures)
    /\ futures[i].pc = "in_setup"
    /\ domain_setup_outcome(i, "notready")
    /\ UNCHANGED storage_vars
    /\ UNCHANGED <<LOADING, LOADED, FAILED, domains_to_setup, DOMAINS_TO_SETUP,
                   DOMAIN_SETUP_TASKS, sched, max_workers, orch, threads, timers, unsatisfied>>

NextDelay ==
    \/ \E c \in Components : component_not_ready(c)
    \/ \E i \in 1..Len(futures) : domain_not_ready(i)

DelaySpec == InitDelay /\ [][NextDelay]_vars

(***************************************************************************)
(* StorageSpec: two Storage objects of one key, saved to and read in any   *)
(* order, no component being set up                                        *)
(***************************************************************************)
NoSetup ==
    /\ LOADING = {} /\ LOADED = {} /\ FAILED = {}
    /\ domains_to_setup = [c \in Components |-> <<>>]
    /\ DOMAINS_TO_SETUP = EmptyTable
    /\ DOMAIN_IDENTIFIERS = << >>
    /\ DOMAIN_SETUP_TASKS = << >>
    /\ futures = <<>>
    /\ sched = [t \in {"main"} |->
                  [pc |-> "idle", idx |-> 1, stack |-> <<>>, err |-> ""]]
    /\ max_workers = MAX_WORKERS
    /\ orch = [pc |-> "sequential", k |-> 1, config |-> {}]
    /\ threads = [c \in Components |-> IdleCall]
    /\ timers = {}
    /\ unsatisfied = {}

InitStorage ==
    /\ NoSetup
    /\ files = [k \in StorageKeys |-> NoFile]
    /\ \E version \in [StorageObjects -> Versions] :
          storage = [o \in StorageObjects |-> NewStorage("foo", version[o])]
    /\ saved = [k \in StorageKeys |-> [known |-> FALSE, data |-> <<>>]]

NextStorage ==
    \E o \in StorageObjects, io \in BOOLEAN :
        \/ \E d \in DataValues : Storage_save(o, d, io)
        \/ Storage_data(o, io)

StorageSpec == InitStorage /\ [][NextStorage]_vars

(***************************************************************************)
(* Properties                                                              *)
(***************************************************************************)
FuturesOf(p) == {i \in 1..Len(futures) : Key(futures[i].d) = p}

TaskDone(p) == p \in DOMAIN DOMAIN_SETUP_TASKS /\ Done(futures[DOMAIN_SETUP_TASKS[p]])

\* C1: the setup routine of a domain has been invoked only if the task of
\* every required dependency, and of every optional dependency that is in
\* DOMAIN_IDENTIFIERS, is done (with any result).
C1_SetupAfterDependencies ==
    \A i \in 1..Len(futures) :
        futures[i].invoked > 0 =>
            /\ \A r \in Range(futures[i].d.require_domains) : TaskDone(r)
            /\ \A o \in Range(futures[i].d.optional_domains) :
                  Registered(DOMAIN_IDENTIFIERS, o) => TaskDone(o)

\* a setup routine runs whose domain has a required dependency and an
\* optional dependency that is registered
C1_Witness ==
    \E i \in 1..Len(futures) :
        /\ futures[i].pc = "in_setup"
        /\ futures[i].d.require_domains # <<>>
        /\ \E o \in Range(futures[i].d.optional_domains) :
              Registered(DOMAIN_IDENTIFIERS, o) /\ TaskDone(o)

\* C2: however two callers of setup_domain interleave, no (domain,
\* identifier) pair has more than one task submitted to the pool.
C2_ExactlyOneTask ==
    \A p \in Pairs : Cardinality(FuturesOf(p)) <= 1

\* C3: once domain_dependencies has returned and setup_domains has ended
\* its submission loop (or has ended altogether), every entry left in the
\* table has been submitted exactly once.
C3_SurvivorsSubmittedOnce ==
    (sched["main"].pc \in {"join", "returned", "raised"} /\ sched["main"].err # "ValueError")
        => \A d \in Range(Flat(DOMAINS_TO_SETUP)) : Cardinality(FuturesOf(Key(d))) = 1

\* C4: once domain_dependencies has acted, an entry with an unregistered
\* required dependency is in neither the table nor the list of its
\* component, and no task is ever submitted for it.
C4_UnsatisfiedPruned ==
    sched["main"].pc # "domain_dependencies" =>
        \A d \in unsatisfied :
            /\ d \notin Range(Flat(DOMAINS_TO_SETUP))
            /\ d \notin Range(domains_to_setup[d.component])
            /\ \A i \in 1..Len(futures) : futures[i].d # d

\* C8: no task resolves to a raised error, and the join of setup_domains
\* does not raise because of a task.
C8_TasksResolveToBoolean ==
    /\ \A i \in 1..Len(futures) : futures[i].result # "raised"
    /\ sched["main"].err # "task"

\* C9: a task that awaited a dependency that resolved to anything but true
\* never invokes its setup routine and resolves to false.
C9_FailedDependencyAbandons ==
    \A i \in 1..Len(futures) :
        (\E w \in futures[i].waits : Done(futures[w]) /\ futures[w].result # "true")
            => /\ futures[i].invoked = 0
               /\ Done(futures[i]) => futures[i].result = "false"

InMaps(c) == {m \in {"LOADING", "LOADED", "FAILED"} :
                \/ m = "LOADING" /\ c \in LOADING
                \/ m = "LOADED" /\ c \in LOADED
                \/ m = "FAILED" /\ c \in FAILED}

TimerPending(c) == \E tm \in timers : tm.component = c

\* C5: once setup_components has returned, a configured component with no
\* setup attempt in progress and no retry timer pending is in exactly one
\* of LOADED and FAILED, and not in LOADING.
C5_ExactlyOneOfLoadedFailed ==
    orch.pc = "returned" =>
        \A c \in Configured(orch.config) :
            (~Active(threads[c]) /\ ~TimerPending(c)) =>
                /\ (c \in LOADED) # (c \in FAILED)
                /\ c \notin LOADING

\* C6 as stated: in every reachable state a component name is a key of at
\* most one of LOADING, LOADED and FAILED.
C6_AtMostOneMap ==
    \A c \in Components : Cardinality(InMaps(c)) <= 1

\* C6 as amended: a component name is a key of at most one of the maps in
\* every state, retries included, except between the insertion into LOADED
\* or FAILED and the removal from LOADING that follows it; there it is a
\* key of LOADING and of exactly one of LOADED and FAILED.
C6_AtMostOneMapOutsideUpdate ==
    \A c \in Components :
        IF threads[c].pc = "del_loading"
        THEN c \in LOADING /\ ((c \in LOADED) # (c \in FAILED))
        ELSE Cardinality(InMaps(c)) <= 1

\* a retry has taken the component out of FAILED and back into LOADING
C6_Witness ==
    \E c \in Components :
        threads[c].tries > 1 /\ threads[c].pc = "in_setup" /\ InMaps(c) = {"LOADING"}

\* C7: a call that ends with the setup routine having returned true leaves
\* the component in LOADED only; an attempt that signalled NotReady ends
\* with the component in FAILED and its timer pending; the retry takes the
\* component out of FAILED before it puts it into LOADING and reaches the
\* setup routine again.
C7_NotReadyRetriesUntilLoaded ==
    \A c \in Components :
        /\ (threads[c].pc = "returned" /\ threads[c].result = "true") => InMaps(c) = {"LOADED"}
        /\ (TimerPending(c) /\ ~Active(threads[c])) => InMaps(c) = {"FAILED"}
        /\ (threads[c].tries > 1 /\ threads[c].pc = "in_setup") => InMaps(c) = {"LOADING"}
        /\ ~(threads[c].tries > 1 /\ threads[c].pc = "raised" /\ threads[c].result = "none")

\* C15: once setup_components has started the threads of the user components
\* it returns, whether or not their setup routines ever return.
C15_SetupComponentsReturns == (orch.pc = "join") ~> (orch.pc = "returned")

\* setup_components has returned while the thread of a user component is
\* still inside the setup routine of its first attempt
C15_Witness ==
    /\ orch.pc = "returned"
    /\ \E c \in Parallel(orch.config) :
          threads[c].pc = "in_setup" /\ threads[c].by = "thread"

\* C10: when an attempt has ended with a result other than true, the
\* component is in FAILED and none of its DomainToSetup is left in the
\* table or in its own list.
C10_FailedAttemptPurged ==
    \A c \in Components :
        (~Active(threads[c]) /\ threads[c].result \notin {"none", "true"}) =>
            /\ c \in FAILED
            /\ domains_to_setup[c] = <<>>
            /\ \A d \in Range(Flat(DOMAINS_TO_SETUP)) : d.component # c

\* the call made last was a read of the data of o that did not meet an
\* input/output error
ReadBy(o) == storage[o].ret.kind \in {"value", "KeyError"}

\* C17: a read of a key that has no file returns an empty result and does
\* not raise; a read of a key whose file has another version than the
\* object returns the data of the file; and a read that follows a save of
\* d to the same key returns d.
C17_StorageReads ==
    \A o \in StorageObjects :
        ReadBy(o) =>
            LET self == storage[o]
                file == files[self.key]
            IN /\ file.kind = "absent" => self.ret = Returned(<<>>)
               /\ (file.kind = "document" /\ file.version # self.version)
                      => self.ret = Returned(json_load(file.data))
               /\ saved[self.key].known => self.ret = Returned(saved[self.key].data)

\* the number of entries on the longest chain of required dependencies
\* that starts at the key p and stays in the table (at most fuel entries)
RECURSIVE ChainDepth(_, _)
ChainDepth(p, fuel) ==
    IF fuel = 0 \/ ~HasKey(DOMAINS_TO_SETUP, p[1], p[2]) THEN 0
    ELSE LET deps == Range(Lookup(DOMAINS_TO_SETUP, p[1], p[2]).require_domains)
             below == {ChainDepth(r, fuel - 1) : r \in deps} \cup {0}
         IN 1 + CHOOSE m \in below : \A n \in below : n <= m

\* the longest chain of required dependencies among the submitted tasks
LongestChain ==
    LET depths == {ChainDepth(Key(futures[i].d), Cardinality(Pairs)) : i \in 1..Len(futures)}
                    \cup {0}
    IN CHOOSE m \in depths : \A n \in depths : n <= m

\* a task that occupies a worker and waits for a task that has no worker yet
BlockedOnQueued(i) ==
    /\ futures[i].pc = "waiting"
    /\ \E w \in futures[i].waits : futures[w].pc = "queued"

\* every worker of the pool is occupied by such a task
Deadlocked ==
    /\ Cardinality(Running) = max_workers
    /\ \A i \in Running : BlockedOnQueued(i)

AllTasksDone == \A i \in 1..Len(futures) : Done(futures[i])

C14_ScheduledEntryRemoved ==
    \A i \in 1..Len(futures) : futures[i].d \notin Range(Flat(DOMAINS_TO_SETUP))

\* C14 as amended: an entry found unsatisfied that domain_dependencies got
\* to prune is not in the table, and an entry that has been submitted stays
\* in the table, also after setup_domains has returned.
C14_ScheduledEntryKept ==
    /\ \A i \in 1..Len(futures) : futures[i].d \in Range(Flat(DOMAINS_TO_SETUP))
    /\ sched["main"].pc \in {"loop", "join", "returned"} =>
          \A d \in unsatisfied : d \notin Range(Flat(DOMAINS_TO_SETUP))

\* setup_domains has returned after it pruned an entry and submitted another
C14_Witness ==
    /\ sched["main"].pc = "returned"
    /\ futures # <<>>
    /\ unsatisfied # {}

\* the tasks that have the task i among the futures they wait for, or will
\* wait for because it is the task of a required dependency
Dependents(i) ==
    {j \in 1..Len(futures) :
        \/ i \in futures[j].waits
        \/ \E r \in Range(futures[j].d.require_domains) :
              r \in DOMAIN DOMAIN_SETUP_TASKS /\ DOMAIN_SETUP_TASKS[r] = i}

\* the task is in a retry chain: it sleeps after NotReady or runs a later attempt
Retrying(i) == ~Done(futures[i]) /\ (futures[i].pc = "sleeping" \/ futures[i].tries > 1)

\* C18: while a domain retries after NotReady its task is unresolved, is the
\* task registered for its key, holds exactly one worker of the pool, and no
\* dependent has invoked its setup routine; every later attempt reaches the
\* setup routine again, and when that returns the boolean b the task
\* resolves to b.
C18_RetryChainResolves ==
    \A i \in 1..Len(futures) :
        /\ Retrying(i) =>
              /\ futures[i].result = "none"
              /\ DOMAIN_SETUP_TASKS[Key(futures[i].d)] = i
              /\ Cardinality({j \in Running : Key(futures[j].d) = Key(futures[i].d)}) = 1
              /\ \A j \in Dependents(i) : futures[j].invoked = 0
        /\ futures[i].pc \in {"in_setup", "cleanup", "done"} /\ futures[i].tries > 1
              => futures[i].invoked = futures[i].tries
        /\ Done(futures[i]) =>
              /\ futures[i].outcome # "notready"
              /\ futures[i].outcome \in {"true", "false"}
                    => futures[i].result = futures[i].outcome

\* a task whose setup routine signalled NotReady and then returned True is
\* done, and a dependent of it has invoked its setup routine since
C18_Witness ==
    \E i \in 1..Len(futures) :
        /\ Done(futures[i]) /\ futures[i].tries > 1 /\ futures[i].outcome = "true"
        /\ \E j \in Dependents(i) : futures[j].invoked > 0

\* C19: once domain_dependencies has returned, every required dependency of
\* every entry left in the table is an entry of the table, and no lookup of
\* setup_domain fails.
C19_RequiredDependenciesPending ==
    /\ sched["main"].pc \in {"loop", "join", "returned"} =>
          \A d \in Range(Flat(DOMAINS_TO_SETUP)) :
              \A r \in Range(d.require_domains) : HasKey(DOMAINS_TO_SETUP, r[1], r[2])
    /\ sched["main"].err # "KeyError"

\* C20: domain_dependencies does not raise, and when it has ended no entry
\* it found unsatisfied is left in the table.
C20_DomainDependenciesCompletes ==
    /\ sched["main"].err # "ValueError"
    /\ sched["main"].pc # "domain_dependencies" =>
          \A d \in unsatisfied : ~HasKey(DOMAINS_TO_SETUP, d.domain, d.identifier)

\* C11: an attempt in which the setup routine raised an error other than
\* NotReady is not left by an error, and when it has ended the component
\* is in FAILED and not in LOADING.
C11_OtherErrorsCaught ==
    \A c \in Components :
        threads[c].outcome = "raise" =>
            /\ threads[c].pc # "raised"
            /\ ~Active(threads[c]) => (c \in FAILED /\ c \notin LOADING)

\* C12: an attempt in which the module could not be imported or the config
\* was rejected is the first attempt, never reaches the setup routine,
\* starts no timer, is not left by an error, and when it has ended the
\* component is in FAILED only.
C12_LoadOrConfigFailureFails ==
    \A c \in Components :
        threads[c].outcome \in {"ModuleNotFoundError", "error", "invalid"} =>
            /\ threads[c].tries = 1
            /\ threads[c].pc \notin {"in_setup", "raised"}
            /\ ~TimerPending(c)
            /\ ~Active(threads[c]) => InMaps(c) = {"FAILED"}

\* the attempts that ended with NotReady and the delays computed for them:
\* the timer of a component, the sleep of a domain
Delays ==
    {<<tm.tries - 1, tm.wait_time>> : tm \in timers}
        \cup {<<futures[i].tries, futures[i].wait_time>> :
                i \in {j \in 1..Len(futures) : futures[j].pc = "sleeping"}}

\* C16: the delay after attempt tries is min(tries * 3, 60): 3, 6, 9, 12, 15
\* for tries 1..5 and 60 from tries 20 on; it never exceeds 60 and does not
\* decrease when tries grows.
C16_RetryDelay ==
    /\ \A td \in Delays :
          /\ td[2] = (IF td[1] * 3 <= 60 THEN td[1] * 3 ELSE 60)
          /\ td[1] \in 1..5 => td[2] = <<3, 6, 9, 12, 15>>[td[1]]
          /\ td[1] >= 20 => td[2] = 60
          /\ td[2] <= 60
    /\ \A a \in Delays, b \in Delays : a[1] <= b[1] => a[2] <= b[2]

\* a component waits 60 after an attempt beyond the twentieth, another 15
\* after its fifth, and a domain sleeps 9 after its third
C16_Witness ==
    /\ \E tm \in timers : tm.tries - 1 > 20 /\ tm.wait_time = 60
    /\ \E tm \in timers : tm.tries - 1 = 5 /\ tm.wait_time = 15
    /\ \E i \in 1..Len(futures) :
          futures[i].pc = "sleeping" /\ futures[i].tries = 3 /\ futures[i].wait_time = 9

\* the keys of the entries of the table
PendingKeys == {Key(d) : d \in Range(Flat(DOMAINS_TO_SETUP))}

\* C21: the walk of setup_domain never nests deeper than the number of
\* entries of the table, and the submission phase of setup_domains is not
\* ended by the recursion limit of the interpreter, whatever the required
\* and optional dependencies of the entries are.
C21_SubmissionWalkTerminates ==
    /\ Len(sched["main"].stack) <= Cardinality(PendingKeys)
    /\ sched["main"].err # "RecursionError"

\* C23: a step of the purge of a failed attempt of the component c does not
\* raise and leaves every entry of the table that another component queued
\* in the table.
C23_PurgeOnlyOwnEntries ==
    [][\A c \in Components :
          (threads[c].pc = "purge" /\ threads'[c] # threads[c]) =>
              /\ threads'[c].pc # "raised"
              /\ \A d \in Range(Flat(DOMAINS_TO_SETUP)) :
                    d.component # c => d \in Range(Flat(DOMAINS_TO_SETUP'))]_vars

\* C22: an attempt of a component whose module was imported and whose
\* config was accepted reaches the setup routine, also when the accepted
\* config is empty; and a task of a domain whose config was accepted and
\* whose awaited dependencies all resolved to true has invoked the setup
\* routine of the domain when it is done.
C22_AcceptedConfigInvokesSetup ==
    /\ \A c \in Components : threads[c].outcome # "empty"
    /\ \A i \in 1..Len(futures) :
          (/\ Done(futures[i])
           /\ futures[i].config \in {"empty", "valid"}
           /\ futures[i].result # "raised"
           /\ \A w \in futures[i].waits : futures[w].result = "true")
              => futures[i].invoked > 0

\* the task has collected the futures of its dependencies at least once
Collected(i) == futures[i].config # "unset"

\* C24: the optional dependencies whose futures a task collects when it
\* runs are the optional dependencies that setup_domain scheduled ahead of
\* it; so a task with a scheduled optional dependency that resolved to
\* anything but true has not invoked its setup routine.
C24_OptionalWaitSetFixed ==
    \A i \in 1..Len(futures) :
        /\ Collected(i) => futures[i].optional = futures[i].scheduled
        /\ \A o \in futures[i].scheduled :
              (TaskDone(o) /\ futures[DOMAIN_SETUP_TASKS[o]].result # "true")
                  => futures[i].invoked = 0

====
